---- MODULE Spec2Model ----
(***************************************************************************)
(* Conversation-context assembly of the chat service: the /chat handler of *)
(* src/server.py with its transcript store (Supabase table chat_history),  *)
(* its completion provider (Groq) and the name-extraction heuristic, and   *)
(* the /chat handler of src/My Chatbot/server.py, which keeps its          *)
(* conversations in the memory of the process.                             *)
(*                                                                         *)
(* Texts are sequences of one-character strings, so that slicing, case     *)
(* folding, substring search and whitespace splitting are computed the way *)
(* the Python string methods compute them.                                 *)
(***************************************************************************)
EXTENDS Integers, Sequences, FiniteSets, TLC

(* ------------------------------------------------------------------ *)
(* Bounds of the model                                                 *)
(* ------------------------------------------------------------------ *)

\* rows the transcript store may hold
MaxTurns == 21

\* rows at the start of the store that may differ from the filler exchange
VariedPrefix == 2

\* how many deviations from the filler exchange one run may contain
MaxVaried == 1

\* turns of a history handed to extract_user_context on its own
MaxHistLen == 3

(* ------------------------------------------------------------------ *)
(* Program constants                                                   *)
(* ------------------------------------------------------------------ *)

\* get_conversation_history(session_id, limit=20)
HistoryLimit == 20

\* for msg in history[-10:]
PromptWindow == 10

\* msg['user_message'][:500], msg['bot_reply'][:500], user_message[:500]
PromptCharBound == 500

\* for msg in history[-20:]
ScanWindow == 20

\* len(user_msg.split()) < 10
ShortMessageTokens == 10

\* generate_conversation_summary(history, max_messages=6)
SummaryWindow == 6

\* msg['user_message'][:30], msg['bot_reply'][:30]
SummaryCharBound == 30

\* session_id[:50]
SessionIdBound == 50

\* (user_message or '')[:1000]
StoreMessageBound == 1000

\* (bot_reply or '')[:2000]
StoreReplyBound == 2000

\* (user_name or '')[:50]
StoreNameBound == 50

(* ------------------------------------------------------------------ *)
(* Python values and string methods                                    *)
(* ------------------------------------------------------------------ *)

\* Python's None: a value that is no text (no text holds the element "None")
None == << "None" >>

\* truth value of an optional text: None and '' are falsy
Truthy(x) == x # None /\ x # << >>

\* x or ''
OrEmpty(x) == IF Truthy(x) THEN x ELSE << >>

\* str(x) as str.format renders it
PyStr(x) == IF x = None THEN <<"N", "o", "n", "e">> ELSE x

LowerCase == <<"a", "b", "c", "d", "e", "f", "g", "h", "i", "j", "k", "l", "m", "n", "o", "p", "q", "r", "s", "t", "u", "v", "w", "x", "y", "z">>

UpperCase == <<"A", "B", "C", "D", "E", "F", "G", "H", "I", "J", "K", "L", "M", "N", "O", "P", "Q", "R", "S", "T", "U", "V", "W", "X", "Y", "Z">>

Whitespace == {" ", "\t", "\n"}

\* the characters of a text
Chars(s) == { s[i] : i \in 1..Len(s) }

\* the upper-case and the lower-case letters
UpperLetters == Chars(UpperCase)

LowerLetters == Chars(LowerCase)

\* one character of s.lower()
ToLower(c) ==
  IF c \in UpperLetters
  THEN LowerCase[CHOOSE i \in 1..Len(UpperCase) : UpperCase[i] = c]
  ELSE c

\* one character of s.upper()
ToUpper(c) ==
  IF c \in LowerLetters
  THEN UpperCase[CHOOSE i \in 1..Len(LowerCase) : LowerCase[i] = c]
  ELSE c

\* s.lower()
Lower(s) == [i \in 1..Len(s) |-> ToLower(s[i])]

\* s[:n]
Take(s, n) == SubSeq(s, 1, IF Len(s) < n THEN Len(s) ELSE n)

\* s[n:] counted from 1: the text from position n on
From(s, n) == SubSeq(s, n, Len(s))

\* s[-n:]
LastN(s, n) == IF Len(s) <= n THEN s ELSE SubSeq(s, Len(s) - n + 1, Len(s))

\* sub occurs in s at position i
OccursAt(s, sub, i) ==
  /\ i + Len(sub) - 1 <= Len(s)
  /\ \A k \in 1..Len(sub) : s[i + k - 1] = sub[k]

\* sub in s: sub occurs at a position of s that holds its first character
\* (the empty text occurs in every text)
Contains(s, sub) ==
  \/ sub = << >>
  \/ \E i \in {j \in 1..(Len(s) - Len(sub) + 1) : s[j] = sub[1]} :
        OccursAt(s, sub, i)

\* s.split(sep)[-1]: split scans left to right and cuts at each occurrence
\* that does not overlap the previous cut; the last piece follows the last cut
RECURSIVE SplitLast(_, _)
SplitLast(s, sep) ==
  IF ~Contains(s, sep) THEN s
  ELSE LET i == CHOOSE j \in 1..Len(s) :
                   /\ OccursAt(s, sep, j)
                   /\ \A k \in 1..(j - 1) : ~OccursAt(s, sep, k)
       IN  SplitLast(From(s, i + Len(sep)), sep)

\* s.strip()
Strip(s) ==
  IF \A i \in 1..Len(s) : s[i] \in Whitespace THEN << >>
  ELSE LET a == CHOOSE i \in 1..Len(s) :
                   /\ s[i] \notin Whitespace
                   /\ \A k \in 1..(i - 1) : s[k] \in Whitespace
           b == CHOOSE i \in 1..Len(s) :
                   /\ s[i] \notin Whitespace
                   /\ \A k \in (i + 1)..Len(s) : s[k] \in Whitespace
       IN  SubSeq(s, a, b)

\* s.split(): the maximal runs of non-whitespace characters, in order
RECURSIVE Split(_)
Split(s) ==
  LET t == Strip(s)
  IN  IF t = << >> THEN << >>
      ELSE IF \A i \in 1..Len(t) : t[i] \notin Whitespace THEN << t >>
      ELSE LET e == CHOOSE i \in 1..Len(t) :
                       /\ t[i] \in Whitespace
                       /\ \A k \in 1..(i - 1) : t[k] \notin Whitespace
           IN  << SubSeq(t, 1, e - 1) >> \o Split(From(t, e + 1))

\* s.upper() in the place of s.capitalize()
CapitalizeAll(s) == [i \in 1..Len(s) |-> ToUpper(s[i])]

\* s.capitalize(): first character upper-cased, all the others lower-cased
Capitalize(s) ==
  [i \in 1..Len(s) |-> IF i = 1 THEN ToUpper(s[i]) ELSE ToLower(s[i])]

\* n copies of the character c
Rep(c, n) == [i \in 1..n |-> c]

(* ------------------------------------------------------------------ *)
(* Heuristic name extraction (extract_user_context)                    *)
(* ------------------------------------------------------------------ *)

\* "my name is"
MyNameIs == <<"m", "y", " ", "n", "a", "m", "e", " ", "i", "s">>

\* "i am"
IAm == <<"i", " ", "a", "m">>

\* "call me"
CallMe == <<"c", "a", "l", "l", " ", "m", "e">>

\* msg.get(key): the value of the field, None when the row has no such field
Get(msg, key) == IF key \in DOMAIN msg THEN msg[key] ELSE None

\* NameCandidate with the one-token test made part of the "i am" branch
\* condition, so that a message failing it falls through to "call me"
NameCandidateFallThrough(user_message) ==
  LET user_msg == Lower(user_message)
  IN  IF Contains(user_msg, MyNameIs)
      THEN LET name_part == Strip(SplitLast(user_msg, MyNameIs))
           IN  IF Split(name_part) = << >>
               THEN [raised |-> TRUE, name |-> None]
               ELSE [raised |-> FALSE, name |-> Capitalize(Split(name_part)[1])]
      ELSE IF /\ Contains(user_msg, IAm)
              /\ Len(Split(user_msg)) < ShortMessageTokens
              /\ Len(Split(Strip(SplitLast(user_msg, IAm)))) = 1
      THEN [raised |-> FALSE, name |-> Capitalize(Strip(SplitLast(user_msg, IAm)))]
      ELSE IF Contains(user_msg, CallMe)
      THEN LET name_part == Strip(SplitLast(user_msg, CallMe))
           IN  IF Split(name_part) = << >>
               THEN [raised |-> TRUE, name |-> None]
               ELSE [raised |-> FALSE, name |-> Capitalize(Split(name_part)[1])]
      ELSE [raised |-> FALSE, name |-> None]

\* The body of the loop of extract_user_context for one user_message that is
\* scanned: the name it sets (None when it sets none), or raised when
\* name_part.split()[0] indexes an empty list (IndexError).
NameCandidate(user_message) ==
  LET user_msg == Lower(user_message)
  IN  IF Contains(user_msg, MyNameIs)
      THEN LET name_part == Strip(SplitLast(user_msg, MyNameIs))
           IN  IF Split(name_part) = << >>
               THEN [raised |-> TRUE, name |-> None]
               ELSE [raised |-> FALSE, name |-> Capitalize(Split(name_part)[1])]
      ELSE IF Contains(user_msg, IAm) /\ Len(Split(user_msg)) < ShortMessageTokens
      THEN LET name_part == Strip(SplitLast(user_msg, IAm))
           IN  IF Len(Split(name_part)) = 1
               THEN [raised |-> FALSE, name |-> Capitalize(name_part)]
               ELSE [raised |-> FALSE, name |-> None]
      ELSE IF Contains(user_msg, CallMe)
      THEN LET name_part == Strip(SplitLast(user_msg, CallMe))
           IN  IF Split(name_part) = << >>
               THEN [raised |-> TRUE, name |-> None]
               ELSE [raised |-> FALSE, name |-> Capitalize(Split(name_part)[1])]
      ELSE [raised |-> FALSE, name |-> None]

\* ScanTurns without the test that no name has been found yet: a later
\* turn replaces the name of an earlier one
RECURSIVE ScanTurnsLastWins(_, _)
ScanTurnsLastWins(turns, user_name) ==
  IF turns = << >> THEN [raised |-> FALSE, name |-> user_name]
  ELSE LET msg == Head(turns)
       IN  IF Truthy(Get(msg, "user_message"))
           THEN LET c == NameCandidate(msg["user_message"])
                IN  IF c.raised THEN c
                    ELSE ScanTurnsLastWins(Tail(turns),
                                   IF c.name # None THEN c.name ELSE user_name)
           ELSE ScanTurnsLastWins(Tail(turns), user_name)

\* The loop of extract_user_context over the turns still to scan, with the
\* user_name found so far: the final user_name, or raised.
RECURSIVE ScanTurns(_, _)
ScanTurns(turns, user_name) ==
  IF turns = << >> THEN [raised |-> FALSE, name |-> user_name]
  ELSE LET msg == Head(turns)
       IN  IF ~Truthy(user_name) /\ Truthy(Get(msg, "user_message"))
           THEN LET c == NameCandidate(msg["user_message"])
                IN  IF c.raised THEN c
                    ELSE ScanTurns(Tail(turns),
                                   IF c.name # None THEN c.name ELSE user_name)
           ELSE ScanTurns(Tail(turns), user_name)

\* extract_user_context(history): the context dictionary, or raised
extract_user_context(history) ==
  LET r == ScanTurns(LastN(history, ScanWindow), None)
  IN  [raised        |-> r.raised,
       user_name     |-> r.name,
       message_count |-> Len(history)]

(* ------------------------------------------------------------------ *)
(* Real-time fast paths of the chat handler                            *)
(* ------------------------------------------------------------------ *)

\* cities of the weather check
WeatherCities ==
  { <<"t", "o", "k", "y", "o">>,
    <<"l", "o", "n", "d", "o", "n">>,
    <<"p", "a", "r", "i", "s">>,
    <<"b", "e", "r", "l", "i", "n">>,
    <<"m", "u", "m", "b", "a", "i">>,
    <<"b", "e", "i", "j", "i", "n", "g">>,
    <<"n", "e", "w", " ", "y", "o", "r", "k">>,
    <<"l", "o", "s", " ", "a", "n", "g", "e", "l", "e", "s">>,
    <<"c", "h", "i", "c", "a", "g", "o">>,
    <<"s", "a", "n", " ", "f", "r", "a", "n", "c", "i", "s", "c", "o">>,
    <<"t", "o", "r", "o", "n", "t", "o">>,
    <<"s", "y", "d", "n", "e", "y">>,
    <<"s", "i", "n", "g", "a", "p", "o", "r", "e">>,
    <<"d", "u", "b", "a", "i">>,
    <<"d", "e", "l", "h", "i">>,
    <<"b", "a", "n", "g", "a", "l", "o", "r", "e">>,
    <<"c", "h", "e", "n", "n", "a", "i">>,
    <<"k", "o", "l", "k", "a", "t", "a">>,
    <<"h", "y", "d", "e", "r", "a", "b", "a", "d">>,
    <<"p", "u", "n", "e">>,
    <<"a", "h", "m", "e", "d", "a", "b", "a", "d">> }

\* stock_symbols
StockSymbols ==
  { <<"a", "a", "p", "l">>,
    <<"m", "s", "f", "t">>,
    <<"g", "o", "o", "g">>,
    <<"g", "o", "o", "g", "l">>,
    <<"m", "e", "t", "a">>,
    <<"a", "m", "z", "n">>,
    <<"t", "s", "l", "a">>,
    <<"n", "v", "d", "a">>,
    <<"n", "f", "l", "x">>,
    <<"d", "i", "s">>,
    <<"p", "y", "p", "l">>,
    <<"a", "d", "b", "e">>,
    <<"i", "n", "t", "c">>,
    <<"a", "m", "d">>,
    <<"s", "p", "y">>,
    <<"q", "q", "q">>,
    <<"v", "o", "o">>,
    <<"i", "w", "m">>,
    <<"g", "l", "d">>,
    <<"s", "l", "v">> }

\* 'india', indian_cities and cities of the time check
TimeCities ==
  { <<"i", "n", "d", "i", "a">>,
    <<"m", "u", "m", "b", "a", "i">>,
    <<"d", "e", "l", "h", "i">>,
    <<"k", "o", "l", "k", "a", "t", "a">>,
    <<"c", "h", "e", "n", "n", "a", "i">>,
    <<"b", "a", "n", "g", "a", "l", "o", "r", "e">>,
    <<"h", "y", "d", "e", "r", "a", "b", "a", "d">>,
    <<"p", "u", "n", "e">>,
    <<"a", "h", "m", "e", "d", "a", "b", "a", "d">>,
    <<"n", "e", "w", " ", "y", "o", "r", "k">>,
    <<"l", "o", "n", "d", "o", "n">>,
    <<"t", "o", "k", "y", "o">>,
    <<"s", "y", "d", "n", "e", "y">>,
    <<"p", "a", "r", "i", "s">>,
    <<"b", "e", "r", "l", "i", "n">>,
    <<"b", "e", "i", "j", "i", "n", "g">>,
    <<"s", "a", "n", " ", "f", "r", "a", "n", "c", "i", "s", "c", "o">>,
    <<"l", "o", "s", " ", "a", "n", "g", "e", "l", "e", "s">>,
    <<"c", "h", "i", "c", "a", "g", "o">>,
    <<"t", "o", "r", "o", "n", "t", "o">>,
    <<"v", "a", "n", "c", "o", "u", "v", "e", "r">>,
    <<"s", "i", "n", "g", "a", "p", "o", "r", "e">>,
    <<"h", "o", "n", "g", " ", "k", "o", "n", "g">>,
    <<"s", "e", "o", "u", "l">>,
    <<"d", "u", "b", "a", "i">>,
    <<"m", "o", "s", "c", "o", "w">>,
    <<"r", "o", "m", "e">>,
    <<"m", "a", "d", "r", "i", "d">>,
    <<"a", "m", "s", "t", "e", "r", "d", "a", "m">> }

\* some text of the set occurs in s (only a text whose first character is
\* among the characters of s can)
ContainsAny(s, subs) ==
  LET chars == Chars(s)
  IN  \E sub \in {t \in subs : t = << >> \/ t[1] \in chars} : Contains(s, sub)

\* The keyword test of a fast path holds for the message and the path reaches
\* a call of its service (a listed city or symbol is named, or the path has a
\* default call).
PathApplies(path, user_message, serper_key) ==
  LET msg_lower == Lower(user_message)
  IN  CASE path = "weather" ->
             /\ ContainsAny(msg_lower, {<<"w", "e", "a", "t", "h", "e", "r">>,
                                        <<"t", "e", "m", "p", "e", "r", "a", "t", "u", "r", "e">>,
                                        <<"c", "o", "l", "d">>, <<"h", "o", "t">>})
             /\ ContainsAny(msg_lower, WeatherCities)
        [] path = "stock" ->
             /\ \/ ContainsAny(msg_lower, {<<"s", "t", "o", "c", "k">>, <<"p", "r", "i", "c", "e">>})
                \/ Contains(user_message, <<"$">>)
             /\ ContainsAny(msg_lower, StockSymbols)
        [] path = "time" ->
             /\ ContainsAny(msg_lower, {<<"t", "i", "m", "e">>, <<"c", "l", "o", "c", "k">>})
             /\ \/ ContainsAny(msg_lower, TimeCities)
                \/ /\ Contains(msg_lower, <<"t", "i", "m", "e">>)
                   /\ ~ContainsAny(msg_lower, {<<"i", "n">>, <<"a", "t">>, <<"f", "o", "r">>})
        [] path = "news" ->
             ContainsAny(msg_lower, {<<"n", "e", "w", "s">>, <<"h", "e", "a", "d", "l", "i", "n", "e">>,
                                     <<"l", "a", "t", "e", "s", "t">>})
        [] path = "search" ->
             /\ serper_key
             /\ ContainsAny(msg_lower, {<<"w", "h", "a", "t", " ", "i", "s">>,
                                        <<"w", "h", "o", " ", "i", "s">>,
                                        <<"w", "h", "e", "n", " ", "d", "i", "d">>,
                                        <<"s", "e", "a", "r", "c", "h">>,
                                        <<"f", "i", "n", "d">>,
                                        <<"t", "e", "l", "l", " ", "m", "e", " ", "a", "b", "o", "u", "t">>})

\* The fast paths that can answer the message: the first service call that
\* succeeds returns the reply, so any applicable path can be the one
RealTimePaths(user_message, serper_key) ==
  {path \in {"weather", "stock", "time", "news", "search"} :
      PathApplies(path, user_message, serper_key)}

\* the reply text a fast path formats from the data of its service
RealTimeReply(path) ==
  CASE path = "weather" -> <<"W", "e", "a", "t", "h", "e", "r", " ", "i", "n">>
    [] path = "stock"   -> <<"P", "r", "i", "c", "e", ":">>
    [] path = "time"    -> <<"T", "i", "m", "e", " ", "i", "n">>
    [] path = "news"    -> <<"L", "a", "t", "e", "s", "t", " ", "N", "e", "w", "s">>
    [] path = "search"  -> <<"S", "e", "a", "r", "c", "h", " ", "R", "e", "s", "u", "l", "t", "s">>

(* ------------------------------------------------------------------ *)
(* Transcript store (Supabase table chat_history)                      *)
(* ------------------------------------------------------------------ *)

\* session_id=eq.{session_id}: the rows of the session
SessionRows(table, session_id) ==
  SelectSeq(table, LAMBDA row : row.session_id = session_id)

\* order=timestamp.asc: the rows in ascending timestamp order; rows with
\* equal timestamps stay in insertion order (each row is put behind the
\* rows, already in order, whose timestamp is not greater)
RECURSIVE OrderByTimestamp(_)
OrderByTimestamp(rows) ==
  IF rows = << >> THEN << >>
  ELSE LET sorted == OrderByTimestamp(SubSeq(rows, 1, Len(rows) - 1))
           last   == rows[Len(rows)]
           k      == Cardinality({j \in 1..Len(sorted) :
                                    sorted[j].timestamp <= last.timestamp})
       IN  SubSeq(sorted, 1, k) \o << last >>
             \o SubSeq(sorted, k + 1, Len(sorted))

\* QueryHistory returning the newest rows of the session in place of the
\* oldest
QueryHistoryNewest(table, session_id, limit) ==
  LastN(OrderByTimestamp(SessionRows(table, session_id)), limit)

\* GET chat_history?session_id=eq.{session_id}&order=timestamp.asc&limit={limit}
QueryHistory(table, session_id, limit) ==
  Take(OrderByTimestamp(SessionRows(table, session_id)), limit)

\* get_conversation_history reading the rows of a response of any status
get_conversation_historyAnyStatus(table, configured, answered, session_id, limit) ==
  IF ~configured THEN << >>
  ELSE QueryHistory(table, session_id, limit)

\* get_conversation_history(session_id, limit): the rows of the response when
\* the store is configured and answers 200, [] otherwise
get_conversation_history(table, configured, answered, session_id, limit) ==
  IF ~configured THEN << >>
  ELSE IF answered THEN QueryHistory(table, session_id, limit)
  ELSE << >>

\* SavedRow with the user_message left as long as it is
SavedRowUncut(session_id, user_message, bot_reply, user_name, now) ==
  [session_id   |-> Take(session_id, SessionIdBound),
   user_message |-> OrEmpty(user_message),
   bot_reply    |-> Take(OrEmpty(bot_reply), StoreReplyBound),
   user_name    |-> Take(OrEmpty(user_name), StoreNameBound),
   file_info    |-> None,
   timestamp    |-> now]

\* the row save_conversation posts
SavedRow(session_id, user_message, bot_reply, user_name, now) ==
  [session_id   |-> Take(session_id, SessionIdBound),
   user_message |-> Take(OrEmpty(user_message), StoreMessageBound),
   bot_reply    |-> Take(OrEmpty(bot_reply), StoreReplyBound),
   user_name    |-> Take(OrEmpty(user_name), StoreNameBound),
   file_info    |-> None,
   timestamp    |-> now]

\* save_conversation without its try/except: an exception of the post
\* leaves the function
save_conversationUnguarded(configured, outcome) ==
  [result   |-> IF configured THEN outcome ELSE "unconfigured",
   posted   |-> configured,
   stored   |-> configured /\ outcome = "stored",
   returned |-> configured /\ outcome \in {"stored", "rejected"},
   raised   |-> configured /\ outcome = "exception"]

\* save_conversation(...): what becomes of the call
\*   outcome   "stored": the insert is made; "rejected": the store answers
\*             with an error status, which is not read; "exception": the
\*             post raises (timeout, connection error)
\*   posted    an insert request was sent
\*   returned  the return value, True or False
\*   raised    an exception leaves the function
save_conversation(configured, outcome) ==
  [result   |-> IF configured THEN outcome ELSE "unconfigured",
   posted   |-> configured,
   stored   |-> configured /\ outcome = "stored",
   returned |-> configured /\ outcome \in {"stored", "rejected"},
   raised   |-> FALSE]

(* ------------------------------------------------------------------ *)
(* Prompt assembly of the chat handler                                 *)
(* ------------------------------------------------------------------ *)

\* separator of the summary: " | "
SummarySeparator == <<" ", "|", " ">>

\* s.join(parts)
RECURSIVE Join(_, _)
Join(parts, sep) ==
  IF parts = << >> THEN << >>
  ELSE IF Len(parts) = 1 THEN parts[1]
  ELSE parts[1] \o sep \o Join(Tail(parts), sep)

\* the entries one turn adds to the summary
SummaryEntries(msg) ==
  (IF Truthy(Get(msg, "user_message"))
   THEN << <<"U", "s", "e", "r", ":", " ">> \o Take(msg["user_message"], SummaryCharBound) >>
   ELSE << >>)
  \o
  (IF Truthy(Get(msg, "bot_reply"))
   THEN << <<"A", "s", "s", "i", "s", "t", "a", "n", "t", ":", " ">> \o Take(msg["bot_reply"], SummaryCharBound) >>
   ELSE << >>)

RECURSIVE SummaryParts(_)
SummaryParts(turns) ==
  IF turns = << >> THEN << >>
  ELSE SummaryEntries(Head(turns)) \o SummaryParts(Tail(turns))

\* generate_conversation_summary(history, max_messages=6)
generate_conversation_summary(history) ==
  IF history = << >> THEN <<"N", "e", "w", " ", "c", "o", "n", "v", "e", "r", "s", "a", "t", "i", "o", "n">>
  ELSE Join(SummaryParts(LastN(history, SummaryWindow)), SummarySeparator)

\* context.get(key, default): the default only when the dictionary has no
\* such key
DictGet(d, key, default) == IF key \in DOMAIN d THEN d[key] ELSE default

\* the fallback of context.get('user_name', 'there')
NameFallback == <<"t", "h", "e", "r", "e">>

\* datetime.now().strftime(...): the text of the current time
CurrentTime == <<"n", "o", "w">>

\* the value that fills the {user_name} placeholder of SYSTEM_PROMPT
SystemUserName(context) == PyStr(DictGet(context, "user_name", NameFallback))

\* SYSTEM_PROMPT.format(current_time, user_name, conversation_summary); the
\* literal text between the placeholders is abbreviated to its labels
SystemPrompt(current_time, user_name, conversation_summary) ==
  <<"T", "I", "M", "E", ":", " ">> \o current_time \o <<" ", "N", "A", "M", "E", ":", " ">> \o user_name
    \o <<" ", "P", "r", "e", "v", "i", "o", "u", "s", " ", "c", "o", "n", "v", "e", "r", "s", "a", "t", "i", "o", "n", ":", " ">> \o conversation_summary

\* TurnMessages with the reply of a turn emitted before its user message
TurnMessagesReplyFirst(msg) ==
  (IF Truthy(Get(msg, "bot_reply"))
   THEN << [role |-> "assistant",
            content |-> Take(msg["bot_reply"], PromptCharBound)] >>
   ELSE << >>)
  \o
  (IF Truthy(Get(msg, "user_message"))
   THEN << [role |-> "user",
            content |-> Take(msg["user_message"], PromptCharBound)] >>
   ELSE << >>)

\* TurnMessages without the tests for empty fields
TurnMessagesUnguarded(msg) ==
  << [role |-> "user",
      content |-> Take(OrEmpty(Get(msg, "user_message")), PromptCharBound)],
     [role |-> "assistant",
      content |-> Take(OrEmpty(Get(msg, "bot_reply")), PromptCharBound)] >>

\* the messages one history turn contributes to the prompt
TurnMessages(msg) ==
  (IF Truthy(Get(msg, "user_message"))
   THEN << [role |-> "user",
            content |-> Take(msg["user_message"], PromptCharBound)] >>
   ELSE << >>)
  \o
  (IF Truthy(Get(msg, "bot_reply"))
   THEN << [role |-> "assistant",
            content |-> Take(msg["bot_reply"], PromptCharBound)] >>
   ELSE << >>)

RECURSIVE HistoryMessages(_)
HistoryMessages(turns) ==
  IF turns = << >> THEN << >>
  ELSE TurnMessages(Head(turns)) \o HistoryMessages(Tail(turns))

\* PromptTurns taking the oldest turns of the history: history[:10]
PromptTurnsOldest(history) == Take(history, PromptWindow)

\* the turns of the history the prompt replays: history[-10:]
PromptTurns(history) == LastN(history, PromptWindow)

\* BuildMessages with the current message passed on at full length
BuildMessagesUncut(history, context, user_message) ==
  << [role |-> "system",
      content |-> SystemPrompt(CurrentTime, SystemUserName(context),
                               generate_conversation_summary(history))] >>
  \o HistoryMessages(PromptTurns(history))
  \o << [role |-> "user", content |-> user_message] >>

\* the message list the chat handler builds for the completion call
BuildMessages(history, context, user_message) ==
  << [role |-> "system",
      content |-> SystemPrompt(CurrentTime, SystemUserName(context),
                               generate_conversation_summary(history))] >>
  \o HistoryMessages(PromptTurns(history))
  \o << [role |-> "user", content |-> Take(user_message, PromptCharBound)] >>

(* ------------------------------------------------------------------ *)
(* Inputs                                                              *)
(* ------------------------------------------------------------------ *)

\* the exchange of an ordinary turn: "hi" answered by "ok"
FillerMessage == <<"h", "i">>

OkReply == <<"o", "k">>

\* bodies of the message field of a request, before .strip()
RawMessages ==
  { FillerMessage,
    <<"m", "y", " ", "n", "a", "m", "e", " ", "i", "s", " ", "b", "o", "b">>,
    <<" ", "M", "y", " ", "n", "a", "m", "e", " ", "i", "s", " ", "M", "c", "D", "o", "n", "a", "l", "d", " ">>,
    <<"m", "y", " ", "n", "a", "m", "e", " ", "i", "s", " ">>,
    <<"w", "e", "a", "t", "h", "e", "r", " ", "t", "o", "k", "y", "o">>,
    Rep("x", PromptCharBound + 1),
    Rep("x", StoreMessageBound + 1),
    <<" ", " ">> }

\* contents the completion provider may return
Replies == { OkReply, << >>, Rep("y", StoreReplyBound + 1) }

\* session_id fields of requests: a short one and one longer than the bound
MainSession == <<"s", "1">>

SessionIds == { MainSession, Rep("s", SessionIdBound + 1) }

\* the session ids of the rows of the store
StoredSessionIds == { Take(sid, SessionIdBound) : sid \in SessionIds }

\* user_name fields of requests: absent, or a name longer than the bound
RequestNames == { None, Rep("z", StoreNameBound + 1) }

\* the request processes; the sequential specification runs the first alone
Procs == {1, 2}

SeqProcs == {1}

(* ------------------------------------------------------------------ *)
(* State                                                               *)
(* ------------------------------------------------------------------ *)

VARIABLES
  config,    \* which environment variables are set: GROQ_API_KEY,
             \* SUPABASE_URL and SUPABASE_KEY, SERPER_API_KEY
  store,     \* the rows of chat_history, in insertion order
  clock,     \* datetime.utcnow(), advancing with every insert
  varied,    \* deviations from the filler exchange among the stored rows
  req,       \* per request process: the locals of the chat handler
  xhistory,  \* a history handed to extract_user_context on its own
  xresult,   \* what extract_user_context made of xhistory
  server,    \* the program that runs: "main" for src/server.py, "local"
             \* for src/My Chatbot/server.py
  CONFIG,    \* src/My Chatbot/server.py: whether CONFIG['API_KEY'] is set
  conversations,     \* src/My Chatbot/server.py: session id -> message list
  session_metadata,  \* src/My Chatbot/server.py: session id -> metadata
  lreq       \* per request process: the locals of the chat handler of
             \* src/My Chatbot/server.py

\* the state of src/server.py and of the function applied on its own
mainVars == << config, store, clock, varied, req, xhistory, xresult >>

\* the state of src/My Chatbot/server.py
localVars == << server, CONFIG, conversations, session_metadata, lreq >>

vars == << mainVars, localVars >>

\* the context dictionary before extract_user_context has run
NoContext == [user_name |-> None, message_count |-> 0]

\* the locals of a handler that has not started
IdleReq ==
  [phase        |-> "idle",
   user_message |-> << >>,
   session_id   |-> << >>,
   user_name    |-> None,
   path         |-> "none",
   fetch        |-> "none",
   lookup       |-> None,
   history      |-> << >>,
   profile      |-> NoContext,
   context      |-> NoContext,
   messages     |-> << >>,
   calls        |-> 0,
   provider     |-> "none",
   reply        |-> None,
   save_name    |-> None,
   saves        |-> 0,
   saved        |-> "none",
   posted       |-> << >>,
   status       |-> 0,
   response     |-> None,
   cost         |-> 0]

\* the locals of a handler of src/My Chatbot/server.py that has not started
IdleLocal ==
  [phase        |-> "idle",
   user_message |-> << >>,
   session_id   |-> << >>,
   personality  |-> << >>,
   sent         |-> << >>,
   calls        |-> 0,
   provider     |-> "none",
   reply        |-> None,
   status       |-> 0,
   route        |-> "chat",
   created      |-> FALSE]

\* src/server.py is the program that runs: the state of the other is empty
MainRuns ==
  /\ server = "main"
  /\ CONFIG = [API_KEY |-> FALSE]
  /\ conversations = << >>
  /\ session_metadata = << >>
  /\ lreq = [p \in Procs |-> IdleLocal]

\* extract_user_context has not been applied to xhistory
NotRun == [done |-> FALSE, raised |-> FALSE, user_name |-> None, message_count |-> 0]

\* how many of the request's inputs differ from the filler exchange, a
\* history query the store does not answer counting as one
InputCost(raw, sid, name, answered) ==
  (IF raw = FillerMessage THEN 0 ELSE 1)
  + (IF sid = MainSession THEN 0 ELSE 1)
  + (IF name = None THEN 0 ELSE 1)
  + (IF answered THEN 0 ELSE 1)

\* a request or a reply may deviate from the filler exchange
MayVary(cost) ==
  cost = 0 \/ (Len(store) < VariedPrefix /\ varied + cost <= MaxVaried)

(* ------------------------------------------------------------------ *)
(* The chat handler (POST /chat)                                       *)
(* ------------------------------------------------------------------ *)

\* Failed with the turn handed to save_conversation before the error response
FailedAfterSave(r, code) ==
  [r EXCEPT !.phase = "done", !.status = code, !.saves = @ + 1]

\* the handler returns an error response
Failed(r, code) == [r EXCEPT !.phase = "done", !.status = code]

\* Begun reading the history under a lock of the session: the turns of the
\* requests in flight are in the history it reads
BegunSerialized(raw, sid, name, path, answered) ==
  LET Row(p) == SavedRow(req[p].session_id, req[p].user_message, OkReply,
                         None, clock)
      RECURSIVE RowsOf(_)
      RowsOf(ps) == IF ps = {} THEN << >>
                    ELSE LET p == CHOOSE x \in ps : \A y \in ps : x <= y
                         IN  << Row(p) >> \o RowsOf(ps \ {p})
      PendingRows ==
        RowsOf({p \in Procs : req[p].phase \in {"built", "replied"}})
      user_message == Strip(raw)
      session_id   == Take(sid, SessionIdBound)
      r0 == [IdleReq EXCEPT !.user_message = user_message,
                            !.session_id = session_id,
                            !.user_name = name,
                            !.cost = InputCost(raw, sid, name, answered)]
  IN  IF ~config.groq_key THEN Failed(IdleReq, 503)
      ELSE IF ~Truthy(user_message) THEN Failed(r0, 400)
      ELSE IF path # "none"
      THEN [r0 EXCEPT !.phase = "replied",
                      !.path = path,
                      !.reply = RealTimeReply(path),
                      !.save_name = name]
      ELSE LET history == get_conversation_history(store \o PendingRows,
                                                   config.supabase,
                                                   answered, session_id,
                                                   HistoryLimit)
               profile == extract_user_context(history)
               context == IF Truthy(name) /\ ~Truthy(profile.user_name)
                          THEN [user_name |-> name,
                                message_count |-> profile.message_count]
                          ELSE [user_name |-> profile.user_name,
                                message_count |-> profile.message_count]
               r1 == [r0 EXCEPT !.fetch = IF ~config.supabase THEN "unconfigured"
                                          ELSE IF answered THEN "ok"
                                          ELSE "failed",
                                !.lookup = session_id,
                                !.history = history]
           IN  IF profile.raised THEN Failed(r1, 500)
               ELSE [r1 EXCEPT !.phase = "built",
                               !.profile = [user_name |-> profile.user_name,
                                            message_count |-> profile.message_count],
                               !.context = context,
                               !.messages = BuildMessages(history, context,
                                                          user_message),
                               !.calls = 1]

\* The handler from its entry to its first pending result: the request is
\* parsed and validated, the fast paths are tried, and otherwise the history
\* is fetched, the profile extracted and the prompt built.
\*   raw, sid, name  the message, session_id and user_name of the request
\*   path            the fast path whose service call succeeds, or "none"
\*   answered        the store answers the history query with 200
Begun(raw, sid, name, path, answered) ==
  LET user_message == Strip(raw)
      session_id   == Take(sid, SessionIdBound)
      r0 == [IdleReq EXCEPT !.user_message = user_message,
                            !.session_id = session_id,
                            !.user_name = name,
                            !.cost = InputCost(raw, sid, name, answered)]
  IN  IF ~config.groq_key THEN Failed(IdleReq, 503)
      ELSE IF ~Truthy(user_message) THEN Failed(r0, 400)
      ELSE IF path # "none"
      THEN [r0 EXCEPT !.phase = "replied",
                      !.path = path,
                      !.reply = RealTimeReply(path),
                      !.save_name = name]
      ELSE LET history == get_conversation_history(store, config.supabase,
                                                   answered, session_id,
                                                   HistoryLimit)
               profile == extract_user_context(history)
               context == IF Truthy(name) /\ ~Truthy(profile.user_name)
                          THEN [user_name |-> name,
                                message_count |-> profile.message_count]
                          ELSE [user_name |-> profile.user_name,
                                message_count |-> profile.message_count]
               r1 == [r0 EXCEPT !.fetch = IF ~config.supabase THEN "unconfigured"
                                          ELSE IF answered THEN "ok"
                                          ELSE "failed",
                                !.lookup = session_id,
                                !.history = history]
           IN  IF profile.raised THEN Failed(r1, 500)
               ELSE [r1 EXCEPT !.phase = "built",
                               !.profile = [user_name |-> profile.user_name,
                                            message_count |-> profile.message_count],
                               !.context = context,
                               !.messages = BuildMessages(history, context,
                                                          user_message),
                               !.calls = 1]

\* chat, lines 512-699: a request arrives and runs up to the posting of the
\* completion call, to the save of a fast-path reply, or to an error response
\*   raws, sids, names  the message, session_id and user_name fields the
\*                      request is drawn from
ChatBeginOf(p, raws, sids, names) ==
  /\ req[p].phase \in {"idle", "done"}
  /\ \E raw \in raws :
       LET paths == IF config.groq_key
                    THEN RealTimePaths(Strip(raw), config.serper_key)
                    ELSE {}
       IN  \E sid \in sids, name \in names, answered \in BOOLEAN :
             /\ MayVary(InputCost(raw, sid, name, answered))
             /\ \E path \in {"none"} \cup paths :
                  req' = [req EXCEPT ![p] = Begun(raw, sid, name, path, answered)]
  /\ UNCHANGED << config, store, clock, varied, xhistory, xresult >>
  /\ UNCHANGED localVars

\* a request with any of the fields of the input sets arrives
ChatBegin(p) == ChatBeginOf(p, RawMessages, SessionIds, RequestNames)

\* chat, lines 686-712: the completion call posted at line 686 returns
\*   outcome  "ok": status 200 with a reply; "error": another status;
\*            "exception": timeout, connection error or malformed body
ChatComplete(p) ==
  /\ req[p].phase = "built"
  /\ \E outcome \in {"ok", "error", "exception"}, content \in Replies :
       LET replyCost == IF content = OkReply THEN 0 ELSE 1
       IN  /\ outcome # "ok" => content = OkReply
           /\ MayVary(req[p].cost + replyCost)
           /\ req' = [req EXCEPT ![p] =
                IF outcome = "ok"
                THEN [@ EXCEPT !.phase = "replied",
                               !.provider = outcome,
                               !.reply = content,
                               !.save_name = req[p].context.user_name,
                               !.cost = @ + replyCost]
                ELSE IF outcome = "error"
                THEN Failed([@ EXCEPT !.provider = outcome], 503)
                ELSE Failed([@ EXCEPT !.provider = outcome], 500)]
  /\ UNCHANGED << config, store, clock, varied, xhistory, xresult >>
  /\ UNCHANGED localVars

\* save_conversation and the 200 response that follows it; an exception
\* leaving save_conversation would reach the except clause of chat
\*   outcome  what becomes of the insert request, see save_conversation
ChatSave(p) ==
  /\ req[p].phase = "replied"
  /\ \E outcome \in {"stored", "rejected", "exception"} :
       LET r == req[p]
           row == SavedRow(r.session_id, r.user_message, r.reply,
                           r.save_name, clock)
           s == save_conversation(config.supabase, outcome)
           called == [r EXCEPT !.saves = @ + 1,
                               !.saved = s.result,
                               !.posted = IF s.posted THEN << row >> ELSE << >>]
       IN  /\ s.stored => Len(store) < MaxTurns
           /\ req' = [req EXCEPT ![p] =
                        IF s.raised THEN Failed(called, 500)
                        ELSE [called EXCEPT !.phase = "done",
                                            !.status = 200,
                                            !.response = r.reply]]
           /\ IF s.stored
              THEN /\ store' = Append(store, row)
                   /\ clock' = clock + 1
                   /\ varied' = varied + r.cost
              ELSE UNCHANGED << store, clock, varied >>
  /\ UNCHANGED << config, xhistory, xresult >>
  /\ UNCHANGED localVars

(* ------------------------------------------------------------------ *)
(* Specification of the service, one request at a time                 *)
(* ------------------------------------------------------------------ *)

\* GROQ_API_KEY and the Supabase variables are set or not; SERPER_API_KEY is
\* left at its default, the empty string
Init ==
  /\ config \in [groq_key : BOOLEAN, supabase : BOOLEAN, serper_key : {FALSE}]
  /\ store = << >>
  /\ clock = 1
  /\ varied = 0
  /\ req = [p \in Procs |-> IdleReq]
  /\ xhistory = << >>
  /\ xresult = NotRun
  /\ MainRuns

Next ==
  \E p \in SeqProcs :
    \/ ChatBegin(p)
    \/ ChatComplete(p)
    \/ ChatSave(p)

Spec == Init /\ [][Next]_vars

(* ------------------------------------------------------------------ *)
(* Specification of extract_user_context as a function of its history  *)
(* ------------------------------------------------------------------ *)

\* user_message fields of the turns of a history
TurnTexts ==
  { FillerMessage,
    <<"m", "y", " ", "n", "a", "m", "e", " ", "i", "s", " ", "b", "o", "b">>,
    <<"m", "y", " ", "n", "a", "m", "e", " ", "i", "s", " ", "c", "a", "r", "o", "l">>,
    <<"H", "i", ",", " ", "m", "y", " ", "n", "a", "m", "e", " ", "i", "s", " ", "M", "c", "D", "o", "n", "a", "l", "d", " ", "o", "k">>,
    <<"m", "y", " ", "n", "a", "m", "e", " ", "i", "s">>,
    <<"p", "l", "e", "a", "s", "e", " ", "c", "a", "l", "l", " ", "m", "e">>,
    <<"I", " ", "a", "m", " ", "P", "r", "i", "y", "a">>,
    << >>,
    None }

\* the turns of a history: rows with a user_message, and a row without one
Turns ==
  { [user_message |-> t, bot_reply |-> OkReply] : t \in TurnTexts }
  \cup { [bot_reply |-> OkReply] }

\* the histories of at most n turns
Histories(n) == UNION { [1..k -> Turns] : k \in 0..n }

InitExtract ==
  /\ config = [groq_key |-> TRUE, supabase |-> TRUE, serper_key |-> FALSE]
  /\ store = << >>
  /\ clock = 1
  /\ varied = 0
  /\ req = [p \in Procs |-> IdleReq]
  /\ xhistory \in Histories(MaxHistLen)
  /\ xresult = NotRun
  /\ MainRuns

\* extract_user_context(xhistory) is called
Extract ==
  /\ ~xresult.done
  /\ LET c == extract_user_context(xhistory)
     IN  xresult' = [done |-> TRUE, raised |-> c.raised,
                     user_name |-> c.user_name,
                     message_count |-> c.message_count]
  /\ UNCHANGED << config, store, clock, varied, req, xhistory >>
  /\ UNCHANGED localVars

NextExtract == Extract

SpecExtract == InitExtract /\ [][NextExtract]_vars

(* ------------------------------------------------------------------ *)
(* Specification of extract_user_context on the messages of one turn   *)
(* ------------------------------------------------------------------ *)

\* the most phrases and words a drawn message is made of
MaxSegments == 4

\* six words that hold none of the phrases
SixWords == <<"a", " ", "b", " ", "c", " ", "d", " ", "e", " ", "f">>

\* the parts messages are made of: the three phrases, two names, and six
\* words that make a message long
Segments ==
  { MyNameIs, IAm, CallMe, <<"b", "o", "b">>, <<"a", "l">>, SixWords }

\* the messages of at most n parts, the parts separated by one space
SegmentMessages(n) ==
  { Join(parts, << " " >>) : parts \in UNION { [1..k -> Segments] : k \in 0..n } }

InitTurn ==
  /\ config = [groq_key |-> TRUE, supabase |-> TRUE, serper_key |-> FALSE]
  /\ store = << >>
  /\ clock = 1
  /\ varied = 0
  /\ req = [p \in Procs |-> IdleReq]
  /\ xhistory \in { << [user_message |-> m, bot_reply |-> OkReply] >> :
                      m \in SegmentMessages(MaxSegments) }
  /\ xresult = NotRun
  /\ MainRuns

NextTurn == Extract

SpecTurn == InitTurn /\ [][NextTurn]_vars

(* ------------------------------------------------------------------ *)
(* The chat handler of src/My Chatbot/server.py (POST /chat), which     *)
(* keeps the conversations in the memory of the process                 *)
(* ------------------------------------------------------------------ *)

\* the most messages a conversation grows to
MaxLocalMessages == 5

\* the longest message the handler accepts
MaxMessageLength == 10000

\* the keys of PERSONALITIES
PersonalityKeys ==
  { <<"p", "r", "o", "f", "e", "s", "s", "i", "o", "n", "a", "l">>,
    <<"c", "a", "s", "u", "a", "l">>,
    <<"t", "e", "c", "h", "n", "i", "c", "a", "l">>,
    <<"c", "r", "e", "a", "t", "i", "v", "e">>,
    <<"t", "e", "a", "c", "h", "e", "r">> }

\* data.get('personality', 'casual')
DefaultPersonality == <<"c", "a", "s", "u", "a", "l">>

\* data.get('session_id', 'default')
DefaultSession == <<"d", "e", "f", "a", "u", "l", "t">>

\* PERSONALITIES[key]['prompt'], the text shortened to its opening words
\* followed by the key
PersonalityPrompt(key) == <<"Y", "o", "u", " ", "a", "r", "e", " ">> \o key

\* get_system_message(personality)
get_system_message(personality) ==
  [role    |-> "system",
   content |-> IF personality \in PersonalityKeys
               THEN PersonalityPrompt(personality)
               ELSE PersonalityPrompt(DefaultPersonality)]

\* data.get(key, default) for a field that is absent (None) or present
FieldOr(value, default) == IF value = None THEN default ELSE value

\* bodies of the message field of a request, before .strip()
LocalRawMessages ==
  { FillerMessage, <<" ", " ">>, Rep("x", MaxMessageLength + 1) }

\* session_id fields of requests: absent, or a name
LocalSessionFields == { None, <<"a">> }

\* personality fields of requests: absent, a key of PERSONALITIES, another
LocalPersonalityFields == { None, <<"t", "e", "c", "h", "n", "i", "c", "a", "l">>, <<"p", "i", "r", "a", "t", "e">> }

\* contents the completion provider may return
LocalReplies == { OkReply }

\* status codes of the completion provider other than 200
ErrorStatuses == { 401, 429 }

\* the dictionary with the key set to the value
Put(map, key, value) ==
  [k \in DOMAIN map \cup {key} |-> IF k = key THEN value ELSE map[k]]

\* the handler returns an error response
LocalFailed(r, code) == [r EXCEPT !.phase = "done", !.status = code]

\* LocalBegun without the two tests of the message
LocalBegunUnvalidated(raw, sid, personality) ==
  LET r0 == [IdleLocal EXCEPT !.user_message = Strip(raw),
                              !.session_id = FieldOr(sid, DefaultSession),
                              !.personality = FieldOr(personality, DefaultPersonality)]
  IN  IF ~CONFIG.API_KEY THEN LocalFailed(IdleLocal, 500)
      ELSE [r0 EXCEPT !.phase = IF r0.session_id \notin DOMAIN conversations
                                THEN "init" ELSE "append"]

\* The handler from its entry to the test 'session_id not in conversations':
\* the key is checked, the request parsed and the message validated.
LocalBegun(raw, sid, personality) ==
  LET r0 == [IdleLocal EXCEPT !.user_message = Strip(raw),
                              !.session_id = FieldOr(sid, DefaultSession),
                              !.personality = FieldOr(personality, DefaultPersonality)]
  IN  IF ~CONFIG.API_KEY THEN LocalFailed(IdleLocal, 500)
      ELSE IF ~Truthy(r0.user_message) THEN LocalFailed(r0, 400)
      ELSE IF Len(r0.user_message) > MaxMessageLength THEN LocalFailed(r0, 400)
      ELSE [r0 EXCEPT !.phase = IF r0.session_id \notin DOMAIN conversations
                                THEN "init" ELSE "append"]

\* chat, lines 135-157: a request arrives; a request to a conversation that
\* has reached its largest size is not drawn, and a message longer than the
\* handler accepts is drawn by the first request of a process only
\*   raws, sids, personalities  the message, session_id and personality
\*                              fields the request is drawn from
\*   most                       the largest size of a conversation
LocalChatBeginOf(p, raws, sids, personalities, most) ==
  /\ lreq[p].phase \in {"idle", "done"}
  /\ \E raw \in raws, sid \in sids, personality \in personalities :
       LET session_id == FieldOr(sid, DefaultSession)
       IN  /\ Len(raw) > MaxMessageLength => lreq[p].phase = "idle"
           /\ session_id \in DOMAIN conversations
                => Len(conversations[session_id]) + 2 <= most
           /\ lreq' = [lreq EXCEPT ![p] = LocalBegun(raw, sid, personality)]
  /\ UNCHANGED << server, CONFIG, conversations, session_metadata >>
  /\ UNCHANGED mainVars

\* a request with any of the fields of the input sets arrives
LocalChatBegin(p) ==
  LocalChatBeginOf(p, LocalRawMessages, LocalSessionFields,
                   LocalPersonalityFields, MaxLocalMessages)

\* a personality field that is a JSON array: a Python list, which cannot be
\* hashed
ListPersonality == << "list" >>

\* the value can be looked up in a dictionary
Hashable(value) == value # ListPersonality

\* personality fields of the requests that come with clear and
\* delete-session requests: absent, a key of PERSONALITIES, a list
SessionsPersonalityFields ==
  { None, <<"t", "e", "c", "h", "n", "i", "c", "a", "l">>, ListPersonality }

\* chat, lines 158-165: the conversation and its metadata are created and the
\* system message is appended (the timestamps of the metadata are not kept);
\* 'personality in PERSONALITIES' raises TypeError for a personality that
\* cannot be hashed, after the empty conversation and the metadata were
\* stored, and the last except clause answers with 500
LocalChatInit(p) ==
  /\ lreq[p].phase = "init"
  /\ LET r == lreq[p]
     IN  /\ conversations' =
              Put(conversations, r.session_id,
                  IF Hashable(r.personality)
                  THEN << get_system_message(r.personality) >>
                  ELSE << >>)
         /\ session_metadata' = Put(session_metadata, r.session_id,
                                    [personality   |-> r.personality,
                                     message_count |-> 0])
         /\ lreq' = [lreq EXCEPT ![p] =
                       IF Hashable(r.personality)
                       THEN [r EXCEPT !.phase = "append", !.created = TRUE]
                       ELSE LocalFailed([r EXCEPT !.created = TRUE], 500)]
  /\ UNCHANGED << server, CONFIG >>
  /\ UNCHANGED mainVars

\* chat, lines 168-175: the user message is appended and counted; a missing
\* key raises KeyError, which the last except clause answers with 500
LocalChatAppend(p) ==
  /\ lreq[p].phase = "append"
  /\ LET r == lreq[p]
         sid == r.session_id
     IN  IF sid \notin DOMAIN conversations
         THEN /\ lreq' = [lreq EXCEPT ![p] = LocalFailed(r, 500)]
              /\ UNCHANGED << conversations, session_metadata >>
         ELSE /\ conversations' =
                   [conversations EXCEPT ![sid] =
                      Append(@, [role |-> "user", content |-> r.user_message])]
              /\ IF sid \notin DOMAIN session_metadata
                 THEN /\ lreq' = [lreq EXCEPT ![p] = LocalFailed(r, 500)]
                      /\ UNCHANGED session_metadata
                 ELSE /\ session_metadata' =
                           [session_metadata EXCEPT ![sid].message_count = @ + 1]
                      /\ lreq' = [lreq EXCEPT ![p].phase = "post"]
  /\ UNCHANGED << server, CONFIG >>
  /\ UNCHANGED mainVars

\* chat, lines 178-196: the payload is built from the conversation and the
\* completion call is posted
LocalChatPost(p) ==
  /\ lreq[p].phase = "post"
  /\ LET r == lreq[p]
     IN  lreq' = [lreq EXCEPT ![p] =
           IF r.session_id \notin DOMAIN conversations THEN LocalFailed(r, 500)
           ELSE [r EXCEPT !.phase = "waiting",
                          !.sent = conversations[r.session_id],
                          !.calls = @ + 1]]
  /\ UNCHANGED << server, CONFIG, conversations, session_metadata >>
  /\ UNCHANGED mainVars

\* LocalChatComplete posting the completion call again after a timeout
LocalChatCompleteRetrying(p) ==
  /\ lreq[p].phase = "waiting"
  /\ \E outcome \in {"ok", "error", "timeout", "connection", "exception"},
        content \in LocalReplies, code \in ErrorStatuses :
       LET r == [lreq[p] EXCEPT !.provider = outcome]
           sid == r.session_id
       IN  IF outcome = "ok" /\ sid \in DOMAIN conversations
           THEN /\ conversations' =
                     [conversations EXCEPT ![sid] =
                        Append(@, [role |-> "assistant", content |-> content])]
                /\ lreq' = [lreq EXCEPT ![p] =
                              [r EXCEPT !.phase = "done", !.reply = content,
                                        !.status = 200]]
           ELSE /\ lreq' = [lreq EXCEPT ![p] =
                              IF outcome = "timeout" /\ r.calls < 2
                              THEN [r EXCEPT !.phase = "post"]
                              ELSE LocalFailed(r, CASE outcome = "error" -> code
                                                    [] outcome = "timeout" -> 504
                                                    [] OTHER -> 500)]
                /\ UNCHANGED conversations
  /\ UNCHANGED << server, CONFIG, session_metadata >>
  /\ UNCHANGED mainVars

\* chat, lines 199-228: the completion call returns
\*   outcome  "ok": status 200 with a reply; "error": another status;
\*            "timeout": requests.exceptions.Timeout; "connection": another
\*            RequestException; "exception": a malformed body
LocalChatComplete(p) ==
  /\ lreq[p].phase = "waiting"
  /\ \E outcome \in {"ok", "error", "timeout", "connection", "exception"},
        content \in LocalReplies, code \in ErrorStatuses :
       LET r == [lreq[p] EXCEPT !.provider = outcome]
           sid == r.session_id
       IN  IF outcome = "ok" /\ sid \in DOMAIN conversations
           THEN /\ conversations' =
                     [conversations EXCEPT ![sid] =
                        Append(@, [role |-> "assistant", content |-> content])]
                /\ lreq' = [lreq EXCEPT ![p] =
                              [r EXCEPT !.phase = "done", !.reply = content,
                                        !.status = 200]]
           ELSE /\ lreq' = [lreq EXCEPT ![p] =
                              LocalFailed(r, CASE outcome = "error" -> code
                                               [] outcome = "timeout" -> 504
                                               [] OTHER -> 500)]
                /\ UNCHANGED conversations
  /\ UNCHANGED << server, CONFIG, session_metadata >>
  /\ UNCHANGED mainVars

\* the dictionary without the key
Del(map, key) == [k \in DOMAIN map \ {key} |-> map[k]]

\* session ids in the path of DELETE /session/<session_id>
LocalSessionIds == { DefaultSession, <<"a">> }

\* clear_chat leaving the message_count of the session as it is
clear_chatKeepingCount(p) ==
  /\ lreq[p].phase \in {"idle", "done"}
  /\ \E sid \in LocalSessionFields :
       LET session_id == FieldOr(sid, DefaultSession)
       IN  /\ conversations' =
                IF session_id \in DOMAIN conversations
                THEN [conversations EXCEPT ![session_id] = << >>]
                ELSE conversations
           /\ session_metadata' = session_metadata
           /\ lreq' = [lreq EXCEPT ![p] =
                         [IdleLocal EXCEPT !.route = "clear",
                                           !.phase = "done",
                                           !.user_message = None,
                                           !.session_id = session_id,
                                           !.status = 200]]
  /\ UNCHANGED << server, CONFIG >>
  /\ UNCHANGED mainVars

\* clear_chat (POST /clear): the conversation of the session, if there is
\* one, becomes the empty list and its message_count 0
\*   sid  the session_id field of the request, or None
clear_chat(p) ==
  /\ lreq[p].phase \in {"idle", "done"}
  /\ \E sid \in LocalSessionFields :
       LET session_id == FieldOr(sid, DefaultSession)
       IN  /\ conversations' =
                IF session_id \in DOMAIN conversations
                THEN [conversations EXCEPT ![session_id] = << >>]
                ELSE conversations
           /\ session_metadata' =
                IF session_id \in DOMAIN conversations
                   /\ session_id \in DOMAIN session_metadata
                THEN [session_metadata EXCEPT ![session_id].message_count = 0]
                ELSE session_metadata
           /\ lreq' = [lreq EXCEPT ![p] =
                         [IdleLocal EXCEPT !.route = "clear",
                                           !.phase = "done",
                                           !.user_message = None,
                                           !.session_id = session_id,
                                           !.status = 200]]
  /\ UNCHANGED << server, CONFIG >>
  /\ UNCHANGED mainVars

\* delete_session (DELETE /session/<session_id>): the conversation and the
\* metadata of the session are removed; the session 'default' is refused
delete_session(p) ==
  /\ lreq[p].phase \in {"idle", "done"}
  /\ \E session_id \in LocalSessionIds :
       LET r == [IdleLocal EXCEPT !.route = "delete",
                                  !.phase = "done",
                                  !.user_message = None,
                                  !.session_id = session_id]
       IN  IF session_id = DefaultSession
           THEN /\ lreq' = [lreq EXCEPT ![p] = [r EXCEPT !.status = 400]]
                /\ UNCHANGED << conversations, session_metadata >>
           ELSE /\ conversations' = Del(conversations, session_id)
                /\ session_metadata' = Del(session_metadata, session_id)
                /\ lreq' = [lreq EXCEPT ![p] = [r EXCEPT !.status = 200]]
  /\ UNCHANGED << server, CONFIG >>
  /\ UNCHANGED mainVars

(* ------------------------------------------------------------------ *)
(* Specification of src/My Chatbot/server.py, one request at a time    *)
(* ------------------------------------------------------------------ *)

\* src/My Chatbot/server.py is the program that runs, with its API key
\* set or left at the placeholder: the state of the other is empty
InitLocal ==
  /\ server = "local"
  /\ CONFIG \in [API_KEY : BOOLEAN]
  /\ conversations = << >>
  /\ session_metadata = << >>
  /\ lreq = [p \in Procs |-> IdleLocal]
  /\ config = [groq_key |-> FALSE, supabase |-> FALSE, serper_key |-> FALSE]
  /\ store = << >>
  /\ clock = 1
  /\ varied = 0
  /\ req = [p \in Procs |-> IdleReq]
  /\ xhistory = << >>
  /\ xresult = NotRun

NextLocal ==
  \E p \in SeqProcs :
    \/ LocalChatBegin(p)
    \/ LocalChatInit(p)
    \/ LocalChatAppend(p)
    \/ LocalChatPost(p)
    \/ LocalChatComplete(p)

SpecLocal == InitLocal /\ [][NextLocal]_vars

(* ------------------------------------------------------------------ *)
(* Specification of src/My Chatbot/server.py with its chat, clear and  *)
(* delete-session requests, one request at a time                      *)
(* ------------------------------------------------------------------ *)

NextSessions ==
  \E p \in SeqProcs :
    \/ LocalChatBeginOf(p, LocalRawMessages, LocalSessionFields,
                        SessionsPersonalityFields, MaxLocalMessages)
    \/ LocalChatInit(p)
    \/ LocalChatAppend(p)
    \/ LocalChatPost(p)
    \/ LocalChatComplete(p)
    \/ clear_chat(p)
    \/ delete_session(p)

SpecSessions == InitLocal /\ [][NextSessions]_vars

(* ------------------------------------------------------------------ *)
(* Specification of src/My Chatbot/server.py with the chat requests of *)
(* one long session, one request at a time                             *)
(* ------------------------------------------------------------------ *)

\* the most messages the conversation of the long session grows to: the
\* system message, PromptWindow turns, and one turn more
MaxLongMessages == 24

\* the outcomes of the completion calls of the long session
LongOutcomes == { "ok", "timeout" }

\* requests with the message 'hi' and no other field, to the session
\* 'default'
NextLong ==
  \E p \in SeqProcs :
    /\ \/ LocalChatBeginOf(p, {FillerMessage}, {None}, {None}, MaxLongMessages)
       \/ LocalChatInit(p)
       \/ LocalChatAppend(p)
       \/ LocalChatPost(p)
       \/ LocalChatComplete(p)
    /\ lreq'[p].provider \in {"none"} \cup LongOutcomes

SpecLong == InitLocal /\ [][NextLong]_vars

(* ------------------------------------------------------------------ *)
(* Specification of the two programs: one of them runs                 *)
(* ------------------------------------------------------------------ *)

InitBoth == Init \/ InitLocal

NextBoth ==
  \/ server = "main" /\ Next
  \/ server = "local" /\ NextLocal

SpecBoth == InitBoth /\ [][NextBoth]_vars

(* ------------------------------------------------------------------ *)
(* Specification of src/server.py with two requests in flight: the     *)
(* handlers of two threads interleave at their calls to the store and  *)
(* to the completion provider                                          *)
(* ------------------------------------------------------------------ *)

\* the most rows the store grows to while two requests interleave
MaxRaceTurns == 2

\* the requests of the two threads: messages to the one session, without a
\* user_name field, answered by the provider with the filler reply
RaceMessages ==
  { FillerMessage,
    <<"m", "y", " ", "n", "a", "m", "e", " ", "i", "s", " ", "b", "o", "b">> }

\* the replies of the provider to the two requests
RaceReplies == { OkReply }

\* the handlers of the two threads take their steps in any order: nothing in
\* chat holds a lock between the history query (line 655) and the insert
\* (line 704)
NextRace ==
  \E p \in Procs :
    /\ \/ ChatBeginOf(p, RaceMessages, {MainSession}, {None})
       \/ ChatComplete(p)
       \/ ChatSave(p)
    /\ req'[p].reply \in {None} \cup RaceReplies
    /\ Len(store') <= MaxRaceTurns

SpecRace == Init /\ [][NextRace]_vars

(* ------------------------------------------------------------------ *)
(* Specification of src/My Chatbot/server.py with two chat requests in *)
(* flight: the handlers of two threads interleave between the test     *)
(* 'session_id not in conversations', the initialisation, the append   *)
(* of the user message, the completion call and its return             *)
(* ------------------------------------------------------------------ *)

\* requests with one of two messages and no other field, to the session
\* 'default'
NextLocalRace ==
  \E p \in Procs :
    \/ LocalChatBeginOf(p, RaceMessages, {None}, {None}, MaxLocalMessages)
    \/ LocalChatInit(p)
    \/ LocalChatAppend(p)
    \/ LocalChatPost(p)
    \/ LocalChatComplete(p)

SpecLocalRace == InitLocal /\ [][NextLocalRace]_vars

(* ------------------------------------------------------------------ *)
(* Properties of the prompt                                            *)
(* ------------------------------------------------------------------ *)

\* the request of p has built the message list of its completion call
Sent(p) == req[p].messages # << >>

\* the store has not changed since the request of p queried it
Pending(p) == req[p].phase \in {"built", "replied"} /\ Sent(p)

\* the turns the prompt of p replays
Replayed(p) == LastN(req[p].history, PromptWindow)

\* the smaller of two numbers
Min(a, b) == IF a < b THEN a ELSE b

\* the number of user-role messages among messages 2..i of the prompt: the
\* position, among the replayed turns, of the turn message i belongs to
TurnIndex(p, i) ==
  Cardinality({k \in 2..i : req[p].messages[k].role = "user"})

\* the text message i of the prompt (i > 1) was built from
SourceText(p, i) ==
  LET m == req[p].messages
  IN  IF i = Len(m) THEN req[p].user_message
      ELSE IF m[i].role = "user"
      THEN Replayed(p)[TurnIndex(p, i)]["user_message"]
      ELSE Replayed(p)[TurnIndex(p, i)]["bot_reply"]

\* every replayed turn has a user message
AllUserTurns(p) ==
  \A k \in 1..Len(Replayed(p)) : Truthy(Get(Replayed(p)[k], "user_message"))

\* turn k of the history is complete
Complete(turn) ==
  Truthy(Get(turn, "user_message")) /\ Truthy(Get(turn, "bot_reply"))

\* c is the first n characters of the text s
IsPrefixOf(c, s, n) ==
  /\ Len(c) = Min(Len(s), n)
  /\ \A k \in 1..Len(c) : c[k] = s[k]

\* C1: the message list of every completion call starts with the one
\* system message, replays the history turns in ascending timestamp order,
\* each turn's user message before its assistant reply, and ends with the
\* current user message.
C1_PromptOrder ==
  \A p \in Procs : Sent(p) =>
    LET m == req[p].messages
        w == Replayed(p)
    IN  /\ m[1].role = "system"
        /\ \A i \in 2..Len(m) : m[i].role \in {"user", "assistant"}
        /\ m[Len(m)].role = "user"
        /\ IsPrefixOf(m[Len(m)].content, req[p].user_message, PromptCharBound)
        /\ \A i, j \in 1..Len(w) : i < j => w[i].timestamp < w[j].timestamp
        /\ TurnIndex(p, Len(m)) = Len(w) + 1
        /\ \A i \in 2..(Len(m) - 1) :
             /\ TurnIndex(p, i) \in 1..Len(w)
             /\ IsPrefixOf(m[i].content, SourceText(p, i), PromptCharBound)
             /\ m[i].role = "assistant" => m[i - 1].role = "user"

\* a prompt that replays two turns with different texts, one of them with
\* its reply
C1_Witness ==
  \E p \in Procs :
    /\ Sent(p)
    /\ Len(Replayed(p)) >= 2
    /\ Replayed(p)[1].user_message # Replayed(p)[2].user_message
    /\ \E i \in 2..(Len(req[p].messages) - 1) :
         req[p].messages[i].role = "assistant"

\* C2 as claimed: the turns replayed into the prompt are the most recent
\* turns stored for the session, the last 10 of them or all if fewer.
C2_MostRecentTurns ==
  \A p \in Procs : (Pending(p) /\ req[p].fetch = "ok") =>
    Replayed(p) =
      LastN(OrderByTimestamp(SessionRows(store, req[p].session_id)),
            PromptWindow)

\* C3: with a fetched history of n complete turns the prompt has
\* 1 + 2*min(n, 10) + 1 messages: the system message, the user/assistant
\* pairs of the last min(n, 10) fetched turns, and the current message.
C3_PromptLength ==
  \A p \in Procs :
    (Sent(p) /\ \A k \in 1..Len(req[p].history) : Complete(req[p].history[k]))
    =>
    LET m == req[p].messages
        n == Len(req[p].history)
        c == Min(n, PromptWindow)
    IN  /\ Len(m) = 1 + 2 * c + 1
        /\ m[1].role = "system"
        /\ m[Len(m)].role = "user"
        /\ \A k \in 1..c :
             LET turn == req[p].history[n - c + k]
             IN  /\ m[2 * k].role = "user"
                 /\ IsPrefixOf(m[2 * k].content, turn.user_message,
                               PromptCharBound)
                 /\ m[2 * k + 1].role = "assistant"
                 /\ IsPrefixOf(m[2 * k + 1].content, turn.bot_reply,
                               PromptCharBound)

\* a prompt built from more complete turns than the window holds, the turn
\* just outside the window differing from the first one inside
C3_Witness ==
  \E p \in Procs :
    /\ Sent(p)
    /\ Len(req[p].history) > PromptWindow
    /\ \A k \in 1..Len(req[p].history) : Complete(req[p].history[k])
    /\ LET n == Len(req[p].history)
       IN  req[p].history[n - PromptWindow].user_message
             # req[p].history[n - PromptWindow + 1].user_message

\* C4: no message of the prompt has empty content; a history turn without
\* a reply contributes its user message only, a turn without a user message
\* its reply only.
C4_NoEmptyContent ==
  \A p \in Procs : Sent(p) =>
    LET m == req[p].messages
        w == Replayed(p)
    IN  /\ \A i \in 1..Len(m) : m[i].content # << >>
        /\ Len(m) = 2 + Cardinality({k \in 1..Len(w) :
                                       Truthy(Get(w[k], "user_message"))})
                      + Cardinality({k \in 1..Len(w) :
                                       Truthy(Get(w[k], "bot_reply"))})

\* a prompt that replays a turn stored with an empty reply
C4_Witness ==
  \E p \in Procs :
    /\ Sent(p)
    /\ \E k \in 1..Len(Replayed(p)) : ~Truthy(Replayed(p)[k].bot_reply)

\* C5: the content of every user and assistant message of the prompt is the
\* first 500 characters of the text it was built from, so at most 500
\* characters, and exactly 500 when that text is longer.
C5_Truncation ==
  \A p \in Procs : (Sent(p) /\ AllUserTurns(p)) =>
    LET m == req[p].messages
    IN  \A i \in 2..Len(m) :
          /\ Len(m[i].content) <= PromptCharBound
          /\ IsPrefixOf(m[i].content, SourceText(p, i), PromptCharBound)
          /\ Len(SourceText(p, i)) > PromptCharBound
               => Len(m[i].content) = PromptCharBound

\* a prompt with a user and an assistant message built from texts longer
\* than 500 characters
C5_Witness ==
  \E p \in Procs :
    /\ Sent(p)
    /\ AllUserTurns(p)
    /\ \E i \in 2..Len(req[p].messages) :
         /\ req[p].messages[i].role = "assistant"
         /\ Len(SourceText(p, i)) > PromptCharBound

(* ------------------------------------------------------------------ *)
(* Properties of the extracted profile                                 *)
(* ------------------------------------------------------------------ *)

\* turn i of the history yields a name candidate
Yields(history, i) ==
  /\ Truthy(Get(history[i], "user_message"))
  /\ ~NameCandidate(history[i]["user_message"]).raised
  /\ NameCandidate(history[i]["user_message"]).name # None

\* turn i is the earliest turn of the history that yields a name candidate
Earliest(history, i) ==
  /\ Yields(history, i)
  /\ \A j \in 1..(i - 1) : ~Yields(history, j)

\* C6: first match wins: the user_name returned is the candidate of the
\* earliest turn that yields one, whatever later turns say, and None when no
\* turn yields one.
C6_FirstMatchWins ==
  (xresult.done /\ ~xresult.raised) =>
    /\ \A i \in 1..Len(xhistory) :
         Earliest(xhistory, i) =>
           xresult.user_name = NameCandidate(xhistory[i]["user_message"]).name
    /\ (\A i \in 1..Len(xhistory) : ~Yields(xhistory, i)) =>
         xresult.user_name = None

\* a history in which two turns yield different names, scanned
C6_Witness ==
  /\ xresult.done
  /\ ~xresult.raised
  /\ \E i, j \in 1..Len(xhistory) :
       /\ i < j
       /\ Earliest(xhistory, i)
       /\ Yields(xhistory, j)
       /\ NameCandidate(xhistory[j]["user_message"]).name
            # NameCandidate(xhistory[i]["user_message"]).name

\* C7 as claimed: extract_user_context returns a profile for every history
\* and raises no error; the empty history gives user_name None and
\* message_count 0.
C7_NeverRaises ==
  xresult.done =>
    /\ ~xresult.raised
    /\ xresult.message_count = Len(xhistory)
    /\ xhistory = << >> => xresult.user_name = None

\* the profile extract_user_context would make of the session's history
\* queried from the table
ProfileOf(table, session_id) ==
  extract_user_context(
    get_conversation_history(table, TRUE, TRUE,
                             Take(session_id, SessionIdBound), HistoryLimit))

C9_FallbackThere ==
  \A p \in Procs :
    (/\ Sent(p)
     /\ ~Truthy(req[p].profile.user_name)
     /\ ~Truthy(req[p].user_name))
    => req[p].messages[1].content
         = SystemPrompt(CurrentTime, NameFallback,
                        generate_conversation_summary(req[p].history))

\* the phrase of the rule that produces the candidate of a message that
\* yields one
MatchedPhrase(user_message) ==
  IF Contains(Lower(user_message), MyNameIs) THEN MyNameIs
  ELSE IF /\ Contains(Lower(user_message), IAm)
          /\ Len(Split(Lower(user_message))) < ShortMessageTokens
  THEN IAm
  ELSE CallMe

\* the matched token as the user wrote it: the first word after the last
\* occurrence of the phrase, in the characters of the original message
MatchedToken(user_message) ==
  LET rest == SplitLast(Lower(user_message), MatchedPhrase(user_message))
  IN  Split(LastN(user_message, Len(rest)))[1]

\* the token that gives the user_name of the scanned history
WinningToken ==
  MatchedToken(xhistory[CHOOSE i \in 1..Len(xhistory) :
                          Earliest(xhistory, i)]["user_message"])

\* extract_user_context has returned a name for xhistory
Named == xresult.done /\ ~xresult.raised /\ Truthy(xresult.user_name)

\* C10 as claimed: the name is the matched token with its first letter
\* upper-cased and its other letters as they are in the original message.
C10_RestUnchanged ==
  Named =>
    /\ Len(xresult.user_name) = Len(WinningToken)
    /\ xresult.user_name[1] = ToUpper(WinningToken[1])
    /\ \A k \in 2..Len(WinningToken) : xresult.user_name[k] = WinningToken[k]

\* C10 amended: the name is the matched token with its first letter
\* upper-cased and its other letters lower-cased.
C10_RestLowered ==
  Named =>
    /\ Len(xresult.user_name) = Len(WinningToken)
    /\ xresult.user_name[1] = ToUpper(WinningToken[1])
    /\ \A k \in 2..Len(WinningToken) :
         xresult.user_name[k] = ToLower(WinningToken[k])

\* a name made of a token written with an upper-case letter after its first
C10_Witness ==
  /\ Named
  /\ \E k \in 2..Len(WinningToken) : WinningToken[k] # ToLower(WinningToken[k])


(* ------------------------------------------------------------------ *)
(* Properties of the heuristics within one turn                        *)
(* ------------------------------------------------------------------ *)

\* the lower-cased message of the one turn of xhistory
TurnText == Lower(xhistory[1]["user_message"])

\* the tokens that follow the last occurrence of the phrase in the text
TokensAfter(text, phrase) == Split(Strip(SplitLast(text, phrase)))

\* the branch condition of the "i am" rule
ShortIAm(text) ==
  Contains(text, IAm) /\ Len(Split(text)) < ShortMessageTokens

\* the turn's result is the one of the first-token rule for the phrase: the
\* capitalized first token after it, and no result where no token follows
ByFirstToken(text, phrase) ==
  IF TokensAfter(text, phrase) = << >> THEN xresult.raised
  ELSE /\ ~xresult.raised
       /\ xresult.user_name = Capitalize(TokensAfter(text, phrase)[1])

\* C11: within one turn the three heuristics are exclusive branches tried in
\* the order "my name is", "i am", "call me": "i am" is used only without
\* "my name is" in a message of fewer than 10 tokens and names only a
\* remainder of exactly one token; "call me" is used only when neither
\* earlier branch condition holds.
C11_BranchOrder ==
  (xresult.done /\ Len(xhistory) = 1 /\ Truthy(Get(xhistory[1], "user_message")))
  => /\ Contains(TurnText, MyNameIs) => ByFirstToken(TurnText, MyNameIs)
     /\ (~Contains(TurnText, MyNameIs) /\ ShortIAm(TurnText))
        => /\ ~xresult.raised
           /\ xresult.user_name =
                IF Len(TokensAfter(TurnText, IAm)) = 1
                THEN Capitalize(Strip(SplitLast(TurnText, IAm)))
                ELSE None
     /\ (~Contains(TurnText, MyNameIs) /\ ~ShortIAm(TurnText)
           /\ Contains(TurnText, CallMe))
        => ByFirstToken(TurnText, CallMe)
     /\ (~Contains(TurnText, MyNameIs) /\ ~ShortIAm(TurnText)
           /\ ~Contains(TurnText, CallMe))
        => (~xresult.raised /\ xresult.user_name = None)

\* a short message with "i am" followed by several tokens, "call me" and a
\* name among them, has been scanned and named nobody
C11_Witness ==
  /\ xresult.done
  /\ Len(xhistory) = 1
  /\ ~Contains(TurnText, MyNameIs)
  /\ ShortIAm(TurnText)
  /\ Len(TokensAfter(TurnText, IAm)) > 1
  /\ Len(TokensAfter(TurnText, CallMe)) > 0
  /\ Contains(Strip(SplitLast(TurnText, IAm)), CallMe)
  /\ ~xresult.raised
  /\ xresult.user_name = None


(* ------------------------------------------------------------------ *)
(* Properties of the persistence of turns                              *)
(* ------------------------------------------------------------------ *)

\* the request of p has ended with a response
Responded(p) == req[p].phase = "done"

\* the insert requests the request of p has sent
Posts(p) == Len(req[p].posted)

\* C12: a chat request answered with 200, by a fast path or by the
\* completion provider, has called save_conversation exactly once (one
\* insert request where the store is configured) and only with the reply
\* obtained; a request answered with 400, 500 or 503 has attempted no insert.
C12_OneInsertPerReply ==
  \A p \in Procs :
    /\ req[p].saves > 0 => req[p].reply # None
    /\ Posts(p) <= req[p].saves
    /\ (Responded(p) /\ req[p].status = 200)
       => /\ req[p].saves = 1
          /\ config.supabase => Posts(p) = 1
          /\ Posts(p) = 1
               => req[p].posted[1].bot_reply = Take(req[p].reply, StoreReplyBound)
    /\ (Responded(p) /\ req[p].status \in {400, 500, 503})
       => (req[p].saves = 0 /\ Posts(p) = 0)
    /\ Responded(p) => req[p].status \in {200, 400, 500, 503}

\* a fast path has answered a request with 200 after one insert
C12_Witness ==
  \E p \in Procs :
    /\ Responded(p)
    /\ req[p].status = 200
    /\ req[p].path = "weather"
    /\ req[p].saved = "stored"
    /\ req[p].saves = 1
    /\ store # << >>
    /\ store[Len(store)] = req[p].posted[1]

\* the rows sent to the store: those it holds and those of pending responses
RowsSent ==
  { store[i] : i \in 1..Len(store) }
    \cup UNION { { req[p].posted[i] : i \in 1..Len(req[p].posted) } : p \in Procs }

\* C13: every row sent to the store has a session_id of at most 50, a
\* user_message of at most 1000, a bot_reply of at most 2000 and a user_name
\* of at most 50 characters, and a request looks its history up under the
\* very session_id, cut to 50 characters, that its insert carries.
C13_RowBounds ==
  /\ \A row \in RowsSent :
       /\ Len(row.session_id) <= SessionIdBound
       /\ Len(row.user_message) <= StoreMessageBound
       /\ Len(row.bot_reply) <= StoreReplyBound
       /\ Len(row.user_name) <= StoreNameBound
  /\ \A p \in Procs :
       /\ req[p].lookup # None => Len(req[p].lookup) <= SessionIdBound
       /\ (req[p].lookup # None /\ Posts(p) > 0)
          => req[p].posted[1].session_id = req[p].lookup

\* a request with a session_id of more than 50 characters has read its
\* history and stored its turn under the first 50
C13_Witness ==
  \E p \in Procs :
    /\ Responded(p)
    /\ req[p].saved = "stored"
    /\ req[p].fetch = "ok"
    /\ req[p].lookup = Take(Rep("s", SessionIdBound + 1), SessionIdBound)
    /\ store[Len(store)].session_id = req[p].lookup

\* the store as the request of p found it: without the row the request has
\* inserted since
StoreBefore(p) ==
  IF req[p].saved = "stored" THEN SubSeq(store, 1, Len(store) - 1) ELSE store

\* the user_name extract_user_context yields for the session of the request
\* of p: the one the request computed, or on a fast path, which computes
\* none, the one of the history the store held
ComputedName(p) ==
  IF req[p].path = "none" THEN req[p].profile.user_name
  ELSE extract_user_context(QueryHistory(StoreBefore(p), req[p].session_id,
                                         HistoryLimit)).user_name

\* C14: every turn the handler persists carries the user_name of the profile
\* extract_user_context computed from the history of the session, on the
\* fast paths as on the completion path.
C14_SavedNameFromProfile ==
  \A p \in Procs :
    (Responded(p) /\ Posts(p) > 0)
    => req[p].posted[1].user_name
         = Take(OrEmpty(ComputedName(p)), StoreNameBound)

(* ------------------------------------------------------------------ *)
(* Properties of the handling of failures                              *)
(* ------------------------------------------------------------------ *)

\* the history read of the request of p has failed
ReadFailed(p) == req[p].fetch \in {"unconfigured", "failed"}

\* C15: when the history read fails (store not configured, exception or
\* timeout, status other than 200) the history is empty and the request goes
\* on: no name is extracted, the prompt is [system, current user message],
\* the completion call is made and its reply returned.
C15_ReadFailureDegrades ==
  \A p \in Procs :
    ReadFailed(p)
    => /\ req[p].history = << >>
       /\ req[p].profile.user_name = None
       /\ Len(req[p].messages) = 2
       /\ req[p].messages[1].role = "system"
       /\ req[p].messages[2] =
            [role |-> "user", content |-> Take(req[p].user_message, PromptCharBound)]
       /\ req[p].calls = 1
       /\ (Responded(p) /\ req[p].provider = "ok")
          => (req[p].status = 200 /\ req[p].response = req[p].reply)

\* the store holds a turn of the session, the read of a later request was
\* answered with an error, and the request has returned the reply
C15_Witness ==
  \E p \in Procs :
    /\ req[p].fetch = "failed"
    /\ QueryHistory(store, req[p].session_id, HistoryLimit) # << >>
    /\ req[p].saved = "none"
    /\ req[p].phase = "replied"
    /\ req[p].provider = "ok"

\* C16: when the store write fails after a completion reply (store not
\* configured, or the insert raises or times out) the failure is swallowed:
\* save_conversation returns False without raising and the handler answers
\* with the reply and 200.
C16_WriteFailureSwallowed ==
  \A p \in Procs :
    (req[p].saves > 0 /\ req[p].saved \in {"unconfigured", "exception"})
    => /\ Responded(p)
       /\ req[p].status = 200
       /\ req[p].response = req[p].reply
       /\ ~save_conversation(config.supabase, "exception").raised
       /\ ~save_conversation(config.supabase, "exception").returned
       /\ ~save_conversation(FALSE, "stored").raised
       /\ ~save_conversation(FALSE, "stored").returned

\* the insert of a completion reply has raised and the request was answered
C16_Witness ==
  \E p \in Procs :
    /\ Responded(p)
    /\ req[p].path = "none"
    /\ req[p].provider = "ok"
    /\ req[p].saved = "exception"
    /\ req[p].status = 200

\* C17: both failure modes of the completion provider, a status other than
\* 200 and a timeout or connection failure, are answered with the same
\* error response, 503.
C17_SameProviderError ==
  \A p \in Procs :
    (Responded(p) /\ req[p].provider \in {"error", "exception"})
    => req[p].status = 503

\* C20: a request whose message is longer than the bound applied to the
\* messages of the prompt is rejected with a validation error before the
\* prompt is built, and no completion call is made for it.
C20_TooLongRejected ==
  \A p \in Procs :
    (req[p].phase # "idle" /\ config.groq_key
       /\ Len(req[p].user_message) > PromptCharBound)
    => /\ Responded(p)
       /\ req[p].status = 400
       /\ req[p].messages = << >>
       /\ req[p].calls = 0

(* ------------------------------------------------------------------ *)
(* Properties of the two programs                                      *)
(* ------------------------------------------------------------------ *)

\* the completion call of the request of p to src/server.py has failed
ProviderFailed(p) == req[p].provider \in {"error", "exception"}

\* the completion call of the request of p to src/My Chatbot/server.py has
\* failed
LocalProviderFailed(p) ==
  lreq[p].provider \in {"error", "timeout", "connection", "exception"}

\* C18: in both programs one chat request makes at most one call to the
\* completion provider: after an error status, a timeout or another failure
\* of the call the handler answers with an error response and makes no
\* second call for the request.
C18_OneCompletionCall ==
  \A p \in Procs :
    /\ req[p].calls <= 1
    /\ lreq[p].calls <= 1
    /\ ProviderFailed(p)
       => (Responded(p) /\ req[p].calls = 1 /\ req[p].status \in {500, 503})
    /\ LocalProviderFailed(p)
       => /\ lreq[p].phase = "done"
          /\ lreq[p].calls = 1
          /\ lreq[p].status \in ErrorStatuses \cup {500, 504}

\* a completion call of src/My Chatbot/server.py has timed out and the
\* request was answered with 504, or one of src/server.py has timed out
\* and the request was answered with 500
C18_Witness ==
  \E p \in Procs :
    \/ /\ server = "local"
       /\ lreq[p].provider = "timeout"
       /\ lreq[p].phase = "done"
       /\ lreq[p].status = 504
    \/ /\ server = "main"
       /\ req[p].provider = "exception"
       /\ Responded(p)
       /\ req[p].status = 500

\* the request of p to src/server.py, the key configured, has a message
\* that is empty after .strip()
EmptyMessage(p) ==
  config.groq_key /\ req[p].phase # "idle" /\ req[p].user_message = << >>

\* the same for src/My Chatbot/server.py
LocalEmptyMessage(p) ==
  CONFIG.API_KEY /\ lreq[p].phase # "idle" /\ lreq[p].user_message = << >>

\* C19: in both programs, the API key configured, a request whose message
\* is empty after stripping is answered with 400 before any context is
\* built: no history read, no completion call, no insert, and in
\* src/My Chatbot/server.py no change of conversations or session_metadata.
C19_EmptyRejected ==
  /\ [](\A p \in Procs :
          /\ EmptyMessage(p)
             => /\ Responded(p)
                /\ req[p].status = 400
                /\ req[p].fetch = "none"
                /\ req[p].messages = << >>
                /\ req[p].calls = 0
                /\ req[p].saves = 0
          /\ LocalEmptyMessage(p)
             => /\ lreq[p].phase = "done"
                /\ lreq[p].status = 400
                /\ lreq[p].sent = << >>
                /\ lreq[p].calls = 0)
  /\ [][\A p \in Procs :
          /\ (req'[p] # req[p] /\ EmptyMessage(p)') => store' = store
          /\ (lreq'[p] # lreq[p] /\ LocalEmptyMessage(p)')
             => /\ conversations' = conversations
                /\ session_metadata' = session_metadata]_vars

\* a request with an empty message to a session that has a conversation was
\* answered with 400 by src/My Chatbot/server.py
C19_Witness ==
  \E p \in Procs :
    /\ server = "local"
    /\ LocalEmptyMessage(p)
    /\ lreq[p].status = 400
    /\ lreq[p].session_id \in DOMAIN conversations
    /\ Len(conversations[lreq[p].session_id]) > 1


(* ------------------------------------------------------------------ *)
(* Properties of requests in flight together                           *)
(* ------------------------------------------------------------------ *)

\* the request of p has queried the history and has not inserted its turn
InFlight(p) ==
  req[p].phase \in {"built", "replied"} /\ req[p].path = "none"

\* the prompt of the request of p replays a turn with the user message of
\* the request of q
ReplaysTurnOf(p, q) ==
  \E k \in 1..Len(req[p].history) :
    Get(req[p].history[k], "user_message") = req[q].user_message

\* C21: src/server.py does not serialize the requests of a session: the
\* history a request reads is the rows of the store alone, whatever stage
\* another request of the session has reached, so that of two requests that
\* both read before either inserts neither replays the turn of the other.
C21_NoSerialization ==
  [][\A p \in Procs :
       (~InFlight(p) /\ InFlight(p)')
       => /\ req'[p].history
               = get_conversation_history(store, config.supabase,
                                          req'[p].fetch = "ok",
                                          req'[p].session_id, HistoryLimit)
          /\ \A q \in Procs \ {p} :
               (InFlight(q) /\ req[q].session_id = req'[p].session_id
                  /\ req[q].history = << >> /\ store = << >>)
               => /\ req'[p].history = << >>
                  /\ Len(req'[p].messages) = 2
                  /\ Len(req[q].messages) = 2]_vars

\* two requests of one session, with different messages, have both read the
\* empty history before either inserted: both were answered, both turns are
\* stored, and neither prompt replayed the turn of the other
C21_Witness ==
  /\ req[1].status = 200 /\ req[2].status = 200
  /\ req[1].phase = "done" /\ req[2].phase = "done"
  /\ req[1].session_id = req[2].session_id
  /\ req[1].user_message # req[2].user_message
  /\ req[1].fetch = "ok" /\ req[2].fetch = "ok"
  /\ req[1].saved = "stored" /\ req[2].saved = "stored"
  /\ Len(SessionRows(store, req[1].session_id)) = 2
  /\ ~ReplaysTurnOf(1, 2) /\ ~ReplaysTurnOf(2, 1)
  /\ Len(req[1].messages) = 2 /\ Len(req[2].messages) = 2

(* ------------------------------------------------------------------ *)
(* Properties of the conversations of src/My Chatbot/server.py         *)
(* ------------------------------------------------------------------ *)

\* the number of messages of the role in a message list
CountRole(messages, role) ==
  Cardinality({k \in 1..Len(messages) : messages[k].role = role})

\* C22 as claimed: after any sequence of chat, clear and delete-session
\* requests, the message list a chat request sends to the completion
\* provider begins with a system message and holds no other system message.
C22_OneLeadingSystem ==
  \A p \in Procs :
    lreq[p].sent # << >>
    => /\ lreq[p].sent[1].role = "system"
       /\ CountRole(lreq[p].sent, "system") = 1

\* no chat request is being processed
Quiet == \A p \in Procs : lreq[p].phase \in {"idle", "done"}

\* the conversation is the system message followed by completed turns: a
\* user message and the assistant reply to it, in turn
CompletedTurns(conversation) ==
  /\ Len(conversation) % 2 = 1
  /\ \A k \in 1..Len(conversation) :
       conversation[k].role = IF k = 1 THEN "system"
                              ELSE IF k % 2 = 0 THEN "user"
                              ELSE "assistant"

\* the message list without its last message
Front(messages) == SubSeq(messages, 1, Len(messages) - 1)

\* C23 as claimed: between sequentially processed chat requests every
\* stored conversation is the system message followed by completed turns,
\* the roles alternating user, assistant; a request whose completion call
\* failed leaves the conversation and message_count as they were before it.
C23_OnlyCompletedTurns ==
  /\ Quiet => \A sid \in DOMAIN conversations :
                CompletedTurns(conversations[sid])
  /\ \A p \in Procs :
       (lreq[p].phase = "done" /\ LocalProviderFailed(p))
       => /\ conversations[lreq[p].session_id] = Front(lreq[p].sent)
          /\ session_metadata[lreq[p].session_id].message_count
               = CountRole(Front(lreq[p].sent), "user")

\* C24 as claimed: the number of messages a chat request sends to the
\* completion provider is bounded by a fixed history window, here the one
\* of src/server.py (the system message, PromptWindow turns and the current
\* user message), however many requests the session has processed.
C24_WindowBounded ==
  \A p \in Procs : Len(lreq[p].sent) <= 2 * PromptWindow + 2

\* C25: between sequentially processed chat, clear and delete-session
\* requests, conversations and session_metadata have the same session ids,
\* and the message_count of every session is the number of user-role
\* messages of its conversation.
C25_MetadataConsistent ==
  Quiet
  => /\ DOMAIN conversations = DOMAIN session_metadata
     /\ \A sid \in DOMAIN conversations :
          session_metadata[sid].message_count
            = CountRole(conversations[sid], "user")

\* a session was deleted after another was cleared and then took two user
\* messages, one of them without a reply
C25_Witness ==
  \E p \in Procs :
    /\ lreq[p].route = "delete"
    /\ lreq[p].status = 200
    /\ lreq[p].session_id \notin DOMAIN conversations
    /\ DefaultSession \in DOMAIN conversations
    /\ Len(conversations[DefaultSession]) = 3
    /\ conversations[DefaultSession][1].role = "user"
    /\ session_metadata[DefaultSession].message_count = 2

\* the request of p has created its session (lines 158-165) and appended
\* its user message (lines 168-175)
CreatedAndAppended(p) ==
  /\ lreq[p].created
  /\ lreq[p].phase \in {"post", "waiting", "done"}
  /\ lreq[p].status # 500 \/ lreq[p].provider # "none"

\* the conversation holds the user message of the request of p
Holds(conversation, p) ==
  \E k \in 1..Len(conversation) :
    conversation[k] = [role |-> "user", content |-> lreq[p].user_message]

\* C26 as claimed: when two chat requests have both found their session
\* missing, both initialised it and both appended their user message, the
\* conversation holds one system message and the user messages of both, and
\* message_count is 2.
C26_BothMessagesKept ==
  \A p, q \in Procs :
    (p # q /\ CreatedAndAppended(p) /\ CreatedAndAppended(q)
       /\ lreq[p].session_id = lreq[q].session_id
       /\ lreq[p].session_id \in DOMAIN conversations)
    => LET sid == lreq[p].session_id
       IN  /\ CountRole(conversations[sid], "system") = 1
           /\ Holds(conversations[sid], p)
           /\ Holds(conversations[sid], q)
           /\ CountRole(conversations[sid], "user") >= 2
           /\ session_metadata[sid].message_count = 2
====
